---- MODULE Spec2Model ----
(***************************************************************************)
(* Model of the prediction-fusion pipeline of the mental-health backend:   *)
(* AdvancedFusionEngine.fuse_predictions and its helpers                   *)
(* (backend/app/services/ml/fusion_engine.py) and                          *)
(* ExplanationGenerator.generate_fusion_explanation                        *)
(* (backend/app/utils/explanations.py).                                    *)
(*                                                                         *)
(* Numbers.  Python floats are modelled exactly as rationals.  Input       *)
(* probabilities, confidences and calibration weights are integers in      *)
(* tenths; a prediction carries the denominator `den` of its probability   *)
(* numerators; a confidence or weight is a record [n, d].  A Python dict   *)
(* is modelled as the sequence of its items in insertion order, because    *)
(* the code reads list(d.values()) and list(d.keys()) positionally.        *)
(***************************************************************************)
EXTENDS Integers, Sequences, FiniteSets, TLC

VARIABLES
    pc,               \* position inside fuse_predictions, "idle" between calls
    eeg_results,      \* argument of the current call
    text_results,     \* argument of the current call
    user_calibration, \* argument of the current call
    fusion_method,    \* argument of the current call
    fusion_results,   \* local of fuse_predictions (line 86-91)
    risk_assessment,  \* local of fuse_predictions (line 94)
    result,           \* the returned dict, or the raised error
    outcome,          \* "none" | "returned" | "raised"
    trace,            \* the steps of fuse_predictions run so far in this call
    fusion_explanation, \* output of generate_fusion_explanation on the result
    calls,            \* number of completed calls
    engine,           \* the AdvancedFusionEngine instance: self.attention_weights, self.priors
    recording,        \* the EEG channel being processed: its length and sampling rate
    validation_result, \* output of EEGProcessor.validate_eeg_data
    filtered_data,    \* output of preprocess_eeg_signal
    epoch_length,     \* argument of extract_eeg_epochs, in tenths of a second
    overlap,          \* argument of extract_eeg_epochs, in hundredths
    epochs,           \* output of extract_eeg_epochs
    bands_data,       \* output of EEGProcessor.extract_band_powers
    psd,              \* the (freqs, psd) pair signal.welch gave compute_spectral_features
    features,         \* output of SignalProcessor.compute_spectral_features
    session,          \* the AnalysisSession row of the job, None before it is created
    task,             \* the background task queued for the session and its position
    response          \* the last response an endpoint gave for the session

fusionVars == <<pc, eeg_results, text_results, user_calibration, fusion_method,
                fusion_results, risk_assessment, result, outcome, trace,
                fusion_explanation, calls, engine>>

signalVars == <<recording, validation_result, filtered_data, epoch_length, overlap,
                epochs, bands_data, psd, features>>

sessionVars == <<session, task, response>>

vars == <<fusionVars, signalVars, sessionVars>>

\* Number of calls of fuse_predictions a behaviour makes.
MaxCalls == 2

-----------------------------------------------------------------------------
(* Python values *)

None == [tag |-> "None"]
\* a key that is not in the dict
Missing == [tag |-> "Missing"]

\* an exception propagating out of a helper
Raise(e) == [tag |-> "Raise", error |-> e]
IsRaise(v) == v.tag = "Raise"

\* d.get(key, default) for a key that may be absent
DictGet(v, default) == IF v = Missing THEN default ELSE v

Rat(n, d) == [n |-> n, d |-> d]
RatGT(a, b) == a.n * b.d > b.n * a.d

RECURSIVE Gcd(_, _)
Gcd(a, b) == IF b = 0 THEN a ELSE Gcd(b, a % b)

\* s[lo] + ... + s[hi], by halves so that the recursion stays shallow
RECURSIVE RangeSum(_, _, _)
RangeSum(s, lo, hi) ==
    IF lo > hi THEN 0
    ELSE IF lo = hi THEN s[lo]
    ELSE RangeSum(s, lo, (lo + hi) \div 2) + RangeSum(s, (lo + hi) \div 2 + 1, hi)

SeqSum(s) == RangeSum(s, 1, Len(s))

RECURSIVE SeqGcd(_)
SeqGcd(s) == IF s = <<>> THEN 0 ELSE Gcd(Head(s), SeqGcd(Tail(s)))

Min(a, b) == IF a < b THEN a ELSE b

\* list(d.keys()) and list(d.values()) of a dict given as its item sequence
Keys(items) == [i \in 1..Len(items) |-> items[i].k]
Values(items) == [i \in 1..Len(items) |-> items[i].v]

\* A prediction dict: label, confidence, probabilities (items, numerators over
\* den), and the optional 'agreement' and 'method' keys ("absent" when the key
\* is not in the dict).
Pred(label, conf, items, den, agreement, method) ==
    [tag |-> "pred", label |-> label, confidence |-> conf,
     probabilities |-> items, den |-> den,
     agreement |-> agreement, method |-> method]

\* A prediction as a predictor or the tests hand it over: confidence in tenths,
\* probabilities in tenths in the order given (<<>>: no 'probabilities' key).
InputPred(label, conf10, items) ==
    Pred(label, Rat(conf10, 10), items, 10, "absent", "absent")

Items(keys, values) == [i \in 1..Len(keys) |-> [k |-> keys[i], v |-> values[i]]]

\* np.argmax: the first index of the maximum
ArgMax(values) ==
    CHOOSE i \in 1..Len(values) :
        /\ \A j \in 1..Len(values) : values[j] <= values[i]
        /\ \A j \in 1..(i - 1) : values[j] < values[i]

\* numpy broadcasting of two 1-d arrays: the shape of a + b, or -1 when the
\* operands cannot be broadcast together (ValueError)
BroadcastLen(a, b) ==
    IF Len(a) = Len(b) THEN Len(a)
    ELSE IF Len(a) = 1 THEN Len(b)
    ELSE IF Len(b) = 1 THEN Len(a)
    ELSE -1
BroadcastAt(a, i) == IF Len(a) = 1 THEN a[1] ELSE a[i]

-----------------------------------------------------------------------------
(* AdvancedFusionEngine.__init__ *)

EmotionPrior ==
    Items(<<"happy", "sad", "neutral", "stressed", "relaxed">>, <<25, 15, 35, 20, 5>>)
AnxietyPrior == Items(<<"low", "moderate", "high">>, <<60, 30, 10>>)
DepressionPrior == Items(<<"not_depressed", "moderate", "severe">>, <<70, 25, 5>>)

\* the instance __init__ builds: attention weights in tenths, priors in hundredths
NewEngine ==
    [attention_weights |-> Items(<<"eeg_emotion", "text_emotion", "eeg_anxiety", "text_anxiety">>,
                                 <<7, 3, 8, 2>>),
     priors |-> [emotion |-> EmotionPrior, anxiety |-> AnxietyPrior,
                 depression |-> DepressionPrior]]

-----------------------------------------------------------------------------
(* _text_to_emotion, _text_to_anxiety *)

\* mutant: a negative sentiment is mapped to neutral
EmotionMapping_NegativeNeutral(sentiment_label) ==
    CASE sentiment_label = "positive" -> "happy"
      [] OTHER -> "neutral"

EmotionMapping(sentiment_label) ==
    CASE sentiment_label = "positive" -> "happy"
      [] sentiment_label = "negative" -> "sad"
      [] OTHER -> "neutral"

TextToEmotion(text) ==
    IF text = None THEN None
    ELSE LET sentiment == DictGet(text.sentiment, [label |-> "neutral", score |-> 5])
             emotion_label == EmotionMapping(sentiment.label)
         IN InputPred(emotion_label, sentiment.score,
                Items(<<"happy", "sad", "neutral", "stressed", "relaxed">>,
                      << IF emotion_label = "happy" THEN 8 ELSE 1,
                         IF emotion_label = "sad" THEN 8 ELSE 1,
                         IF emotion_label = "neutral" THEN 8 ELSE 1,
                         1, 1 >>))

TextToAnxiety(text) ==
    IF text = None THEN None
    ELSE LET level == DictGet(text.anxiety_keywords, [level |-> "low"]).level
         IN InputPred(level, 7,
                Items(<<"low", "moderate", "high">>,
                      << IF level = "low" THEN 8 ELSE 1,
                         IF level = "moderate" THEN 8 ELSE 1,
                         IF level = "high" THEN 8 ELSE 1 >>))

-----------------------------------------------------------------------------
(* _apply_safety_rules *)

CrisisOverride ==
    [tag |-> "result", risk_level |-> "high", confidence |-> 95,
     safety_override |-> "True", explanation |-> <<"crisis_detected",
     "immediate_help", "safety_priority">>, emergency_resources |-> "True",
     emotion_fusion |-> Missing, anxiety_fusion |-> Missing]

SevereDepressionOverride ==
    [tag |-> "result", risk_level |-> "high", confidence |-> 90,
     safety_override |-> "True", explanation |-> <<"severe_depression",
     "evaluation_24_48h", "guidance_only">>, emergency_resources |-> "absent",
     emotion_fusion |-> Missing, anxiety_fusion |-> Missing]

\* text_results.get('safety_flags', {}).get('has_crisis_indicators')
HasCrisisIndicators(text) ==
    DictGet(text.safety_flags, [has_crisis_indicators |-> "absent"]).has_crisis_indicators = "True"

\* mutant: the severe-depression rule is tested before the crisis rule
ApplySafetyRules_SevereFirst(eeg, text) ==
    IF text = None THEN None
    ELSE IF text.depression # None
            /\ DictGet(text.depression, [label |-> "absent", confidence |-> 0]).label = "severe"
            /\ DictGet(text.depression, [label |-> "absent", confidence |-> 0]).confidence > 7
    THEN SevereDepressionOverride
    ELSE IF HasCrisisIndicators(text) THEN CrisisOverride
    ELSE IF text.depression = None THEN Raise("AttributeError")
    ELSE None

\* mutant: the confidence threshold is inclusive (>= 0.7)
ApplySafetyRules_Inclusive(eeg, text) ==
    IF text # None /\ HasCrisisIndicators(text) THEN CrisisOverride
    ELSE IF text = None THEN None
    ELSE IF text.depression = None THEN Raise("AttributeError")
    ELSE LET depression == DictGet(text.depression, [label |-> "absent", confidence |-> 0])
         IN IF depression.label = "severe" /\ depression.confidence >= 7
            THEN SevereDepressionOverride
            ELSE None

ApplySafetyRules(eeg, text) ==
    IF text # None /\ HasCrisisIndicators(text) THEN CrisisOverride
    ELSE IF text = None THEN None
    ELSE IF text.depression = None THEN Raise("AttributeError")
    ELSE LET depression == DictGet(text.depression, [label |-> "absent", confidence |-> 0])
         IN IF depression.label = "severe" /\ depression.confidence > 7
            THEN SevereDepressionOverride
            ELSE None

-----------------------------------------------------------------------------
(* _get_attention_weights *)

\* base_weights[modality][source] after the calibration loop (lines 228-233)
Calibrated(cal, key, w) ==
    IF cal # None /\ DOMAIN cal.weights # {} /\ key \in DOMAIN cal.weights
    THEN Rat(cal.weights[key], 10)
    ELSE w

GetAttentionWeights(eeg, text, cal) ==
    IF eeg # None /\ text # None /\ eeg.emotion = None
    THEN Raise("AttributeError")
    ELSE
    LET adjust == eeg # None /\ text # None
        eeg_emotion_conf == IF adjust THEN eeg.emotion.confidence ELSE Rat(5, 10)
        text_emotion_conf ==
            IF adjust
            THEN Rat(DictGet(text.sentiment, [label |-> "neutral", score |-> 5]).score, 10)
            ELSE Rat(5, 10)
        \* both confidences are in tenths: total_conf = total10 / 10
        total10 == eeg_emotion_conf.n + text_emotion_conf.n
        emotion_eeg == IF adjust /\ total10 > 0 THEN Rat(eeg_emotion_conf.n, total10)
                       ELSE Rat(7, 10)
        emotion_text == IF adjust /\ total10 > 0 THEN Rat(text_emotion_conf.n, total10)
                        ELSE Rat(3, 10)
    IN [tag |-> "weights",
        emotion |-> [eeg |-> Calibrated(cal, "eeg_emotion_weight", emotion_eeg),
                     text |-> Calibrated(cal, "text_emotion_weight", emotion_text)],
        anxiety |-> [eeg |-> Calibrated(cal, "eeg_anxiety_weight", Rat(8, 10)),
                     text |-> Calibrated(cal, "text_anxiety_weight", Rat(2, 10))],
        method |-> "absent"]

-----------------------------------------------------------------------------
(* _fuse_with_attention *)

\* A probability vector nums/den with the common factor taken out.
Reduced(keys, nums, den, best_idx, agreement, method) ==
    LET g == Gcd(den, SeqGcd(nums))
        q == IF g = 0 THEN 1 ELSE g
        n == Min(Len(keys), Len(nums))
    IN Pred(keys[best_idx], Rat(nums[best_idx] \div q, den \div q),
            [i \in 1..n |-> [k |-> keys[i], v |-> nums[i] \div q]],
            den \div q, agreement, method)

DefaultPred == Pred("neutral", Rat(3, 10), <<>>, 10, "absent", "absent")

\* mutant: a lone EEG prediction is not passed through
FuseWithAttention_DropsLoneEeg(eeg_pred, text_pred, weights) ==
    IF text_pred # None THEN text_pred ELSE DefaultPred

FuseWithAttention(eeg_pred, text_pred, weights) ==
    IF eeg_pred # None /\ text_pred # None THEN
        LET eeg_probs == Values(eeg_pred.probabilities)
            text_probs == Values(text_pred.probabilities)
            n == BroadcastLen(eeg_probs, text_probs)
            den == weights.eeg.d * eeg_pred.den * weights.text.d * text_pred.den
            fused_probs == [i \in 1..n |->
                weights.eeg.n * BroadcastAt(eeg_probs, i) * weights.text.d * text_pred.den
                + weights.text.n * BroadcastAt(text_probs, i) * weights.eeg.d * eeg_pred.den]
            classes == Keys(eeg_pred.probabilities)
        IN IF n = -1 THEN Raise("ValueError")         \* cannot broadcast
           ELSE IF n = 0 THEN Raise("ValueError")     \* argmax of an empty array
           ELSE IF ArgMax(fused_probs) > Len(classes) THEN Raise("IndexError")
           ELSE Reduced(classes, fused_probs, den, ArgMax(fused_probs),
                        IF eeg_pred.label = text_pred.label THEN "True" ELSE "False",
                        "absent")
    ELSE IF eeg_pred # None THEN eeg_pred
    ELSE IF text_pred # None THEN text_pred
    ELSE DefaultPred

-----------------------------------------------------------------------------
(* _bayesian_update *)

\* mutant: a label the prediction has no probability for gets likelihood 0
Likelihood_MissingIsZero(pred, cls, nclasses) ==
    LET hit == {i \in 1..Len(pred.probabilities) : pred.probabilities[i].k = cls}
    IN IF hit = {} THEN 0
       ELSE pred.probabilities[CHOOSE i \in hit : TRUE].v * nclasses

\* pred.get('probabilities', {}).get(cls, 1/len(classes)), scaled by
\* pred.den * len(classes) so that it stays an integer
Likelihood(pred, cls, nclasses) ==
    LET hit == {i \in 1..Len(pred.probabilities) : pred.probabilities[i].k = cls}
    IN IF hit = {} THEN pred.den
       ELSE pred.probabilities[CHOOSE i \in hit : TRUE].v * nclasses

BayesianUpdate(eeg_pred, text_pred, prior) ==
    LET classes == Keys(prior)
        nc == Len(classes)
        posterior == [i \in 1..nc |->
            prior[i].v
            * (IF eeg_pred # None THEN Likelihood(eeg_pred, classes[i], nc) ELSE 1)
            * (IF text_pred # None THEN Likelihood(text_pred, classes[i], nc) ELSE 1)]
        total == SeqSum(posterior)
    IN \* total = 0 gives an array of nan: argmax 0 and a nan confidence (den 0)
       Reduced(classes, posterior, total, ArgMax(posterior), "absent", "bayesian")

-----------------------------------------------------------------------------
(* _ensemble_predictions *)

EnsemblePredictions(pred1, pred2) ==
    LET classes == Keys(pred1.probabilities)
        probs1 == Values(pred1.probabilities)
        probs2 == Values(pred2.probabilities)
        n == BroadcastLen(probs1, probs2)
        den == 2 * pred1.den * pred2.den
        ensemble_probs == [i \in 1..n |->
            BroadcastAt(probs1, i) * pred2.den + BroadcastAt(probs2, i) * pred1.den]
    IN IF n = -1 THEN Raise("ValueError")
       ELSE IF n = 0 THEN Raise("ValueError")
       ELSE IF ArgMax(ensemble_probs) > Len(classes) THEN Raise("IndexError")
       ELSE Reduced(classes, ensemble_probs, den, ArgMax(ensemble_probs),
                    "absent", "ensemble")

-----------------------------------------------------------------------------
(* _attention_fusion, _bayesian_fusion, _ensemble_fusion *)

FusionResults(emotion, anxiety, importance) ==
    IF IsRaise(emotion) THEN emotion
    ELSE IF IsRaise(anxiety) THEN anxiety
    ELSE [tag |-> "fusion", emotion |-> emotion, anxiety |-> anxiety,
          importance |-> importance]

AttentionFusion(eeg, text, cal) ==
    LET weights == GetAttentionWeights(eeg, text, cal)
    IN IF IsRaise(weights) THEN weights
       ELSE FusionResults(
              FuseWithAttention(IF eeg # None THEN eeg.emotion ELSE None,
                                TextToEmotion(text), weights.emotion),
              FuseWithAttention(IF eeg # None THEN eeg.anxiety ELSE None,
                                TextToAnxiety(text), weights.anxiety),
              weights)

BayesianFusion(self, eeg, text) ==
    FusionResults(
        BayesianUpdate(IF eeg # None THEN eeg.emotion ELSE None,
                       TextToEmotion(text), self.priors.emotion),
        BayesianUpdate(IF eeg # None THEN eeg.anxiety ELSE None,
                       TextToAnxiety(text), self.priors.anxiety),
        [tag |-> "weights", method |-> "bayesian"])

EnsembleFusion(self, eeg, text) ==
    LET attention_results == AttentionFusion(eeg, text, None)
        bayesian_results == BayesianFusion(self, eeg, text)
    IN IF IsRaise(attention_results) THEN attention_results
       ELSE IF IsRaise(bayesian_results) THEN bayesian_results
       ELSE FusionResults(
              EnsemblePredictions(attention_results.emotion, bayesian_results.emotion),
              EnsemblePredictions(attention_results.anxiety, bayesian_results.anxiety),
              [tag |-> "weights", method |-> "ensemble"])

-----------------------------------------------------------------------------
(* _assess_risk_level_advanced *)

\* mutant: 'high' is missing from anxiety_levels and falls to the default 0
AnxietyLevels_HighUnmapped(label) ==
    CASE label = "low" -> 0 [] label = "moderate" -> 1 [] OTHER -> 0

AnxietyLevels(label) ==
    CASE label = "low" -> 0 [] label = "moderate" -> 1 [] label = "high" -> 2 [] OTHER -> 0

\* mutant: 'severe' is missing from depression_levels and falls to the default 0
DepressionLevels_SevereUnmapped(label) ==
    CASE label = "not_depressed" -> 0 [] label = "moderate" -> 1 [] OTHER -> 0

DepressionLevels(label) ==
    CASE label = "not_depressed" -> 0 [] label = "moderate" -> 1 [] label = "severe" -> 2
      [] OTHER -> 0

\* sum(w * r for w, r in zip(weights, risk_factors)), in tenths
RiskWeights == <<3, 4, 3>>
WeightedSum(risk_factors) ==
    SeqSum([i \in 1..Min(Len(RiskWeights), Len(risk_factors)) |->
                RiskWeights[i] * risk_factors[i]])

\* mutant: the moderate threshold is exclusive (risk_score > 1.0)
AssessRiskLevelAdvanced_ExclusiveModerate(fusion, text) ==
    IF text # None /\ text.depression = None THEN Raise("AttributeError")
    ELSE
    LET emotion == fusion.emotion
        anxiety == fusion.anxiety
        emotion_factor ==
            IF emotion.label \in {"sad", "stressed"}
            THEN << IF RatGT(emotion.confidence, Rat(7, 10)) THEN 2 ELSE 1 >>
            ELSE <<>>
        anxiety_factor == << AnxietyLevels(anxiety.label) >>
        depression_factor ==
            IF text # None
            THEN << DepressionLevels(
                      DictGet(text.depression, [label |-> "not_depressed"]).label) >>
            ELSE <<>>
        risk_factors == emotion_factor \o anxiety_factor \o depression_factor
        \* risk_score = score10 / 10, since sum(weights) = 1.0
        score10 == WeightedSum(risk_factors)
    IN [tag |-> "risk",
        level |-> IF score10 >= 15 THEN "high"
                  ELSE IF score10 > 10 THEN "moderate"
                  ELSE IF score10 >= 5 THEN "mild"
                  ELSE "stable",
        confidence |-> IF score10 >= 15 THEN 85
                       ELSE IF score10 > 10 THEN 75
                       ELSE IF score10 >= 5 THEN 65
                       ELSE 70,
        risk_score |-> score10,
        risk_factors |-> risk_factors]

AssessRiskLevelAdvanced(fusion, text) ==
    IF text # None /\ text.depression = None THEN Raise("AttributeError")
    ELSE
    LET emotion == fusion.emotion
        anxiety == fusion.anxiety
        emotion_factor ==
            IF emotion.label \in {"sad", "stressed"}
            THEN << IF RatGT(emotion.confidence, Rat(7, 10)) THEN 2 ELSE 1 >>
            ELSE <<>>
        anxiety_factor == << AnxietyLevels(anxiety.label) >>
        depression_factor ==
            IF text # None
            THEN << DepressionLevels(
                      DictGet(text.depression, [label |-> "not_depressed"]).label) >>
            ELSE <<>>
        risk_factors == emotion_factor \o anxiety_factor \o depression_factor
        \* risk_score = score10 / 10, since sum(weights) = 1.0
        score10 == WeightedSum(risk_factors)
    IN [tag |-> "risk",
        level |-> IF score10 >= 15 THEN "high"
                  ELSE IF score10 >= 10 THEN "moderate"
                  ELSE IF score10 >= 5 THEN "mild"
                  ELSE "stable",
        confidence |-> IF score10 >= 15 THEN 85
                       ELSE IF score10 >= 10 THEN 75
                       ELSE IF score10 >= 5 THEN 65
                       ELSE 70,
        risk_score |-> score10,
        risk_factors |-> risk_factors]

-----------------------------------------------------------------------------
(* _generate_explanation_with_importance, _get_recommendation_priority *)

\* the keys of fusion_results['importance']
ImportanceKeys(importance) ==
    CASE importance.method = "absent" -> {"emotion", "anxiety"}
      [] importance.method = "bayesian" -> {"method", "priors_used"}
      [] OTHER -> {"method", "components"}

GenerateExplanationWithImportance(eeg, text, fusion, risk) ==
    LET importance == fusion.importance
        weighting ==
            IF "eeg" \in ImportanceKeys(importance) /\ "text" \in ImportanceKeys(importance)
            THEN << "weighted_more_heavily" >>
            ELSE <<>>
        method == IF importance.method = "absent" THEN "attention" ELSE importance.method
    IN weighting
       \o << "emotional_state_with_confidence" >>
       \o << "anxiety_level_with_confidence" >>
       \o << "overall_risk_assessment" >>
       \o << CASE method = "attention" -> "used_attention_fusion"
               [] method = "bayesian" -> "used_bayesian_fusion"
               [] OTHER -> "used_ensemble_fusion" >>

GetRecommendationPriority(risk_level) ==
    CASE risk_level = "stable" -> "maintenance"
      [] risk_level = "mild" -> "prevention"
      [] risk_level = "moderate" -> "intervention"
      [] risk_level = "high" -> "crisis"
      [] OTHER -> "prevention"

\* the dict built at lines 101-111 of fuse_predictions
FusionReturn(fusion, risk, explanation, method) ==
    [tag |-> "result", risk_level |-> risk.level, confidence |-> risk.confidence,
     safety_override |-> "absent", explanation |-> explanation,
     emergency_resources |-> "absent",
     emotion_fusion |-> fusion.emotion, anxiety_fusion |-> fusion.anxiety,
     risk_score |-> risk.risk_score, fusion_method |-> method,
     recommendations_priority |-> GetRecommendationPriority(risk.level)]

-----------------------------------------------------------------------------
(* ExplanationGenerator.generate_fusion_explanation *)

\* fusion_results.get(key, {}).get('agreement') is truthy
Agrees(fused) == fused # Missing /\ fused.agreement = "True"

GenerateFusionExplanation(res) ==
    IF res.safety_override = "True" THEN res.explanation
    ELSE
    LET agreement_count ==
            (IF Agrees(res.emotion_fusion) THEN 1 ELSE 0)
            + (IF Agrees(res.anxiety_fusion) THEN 1 ELSE 0)
        priority == res.recommendations_priority
    IN << "combined_analysis_suggests" >>
       \o << CASE agreement_count = 2 -> "consistent_findings"
               [] agreement_count = 1 -> "partial_agreement"
               [] OTHER -> "some_differences" >>
       \o << "emotional_state_assessment" >>
       \o << "anxiety_level_assessment" >>
       \o (CASE priority = "crisis" -> << "immediate_action" >>
             [] priority = "intervention" -> << "active_intervention" >>
             [] priority = "prevention" -> << "preventive_care" >>
             [] OTHER -> <<>>)

-----------------------------------------------------------------------------
(* The inputs a call is made with *)

\* label order of EEGCNNLSTMInference / EEGTransformerInference
CnnClasses == <<"happy", "sad", "neutral", "stressed", "relaxed">>
\* label order of EEGModelInference (eeg_processor.py)
ProcessorClasses == <<"happy", "sad", "angry", "relaxed", "stressed">>
AnxietyClasses == <<"low", "moderate", "high">>

EegEmotionPreds ==
    { InputPred("happy", 5, Items(CnnClasses, <<5, 1, 2, 1, 1>>)),
      InputPred("sad", 4, Items(CnnClasses, <<1, 4, 3, 1, 1>>)),
      InputPred("relaxed", 8, Items(CnnClasses, <<0, 1, 1, 0, 8>>)),
      InputPred("stressed", 6, Items(ProcessorClasses, <<1, 1, 1, 1, 6>>)),
      \* probabilities that sum to 1.2
      InputPred("relaxed", 8, Items(CnnClasses, <<1, 1, 1, 1, 8>>)) }

EegAnxietyPreds ==
    { InputPred("low", 8, Items(AnxietyClasses, <<8, 1, 1>>)),
      InputPred("moderate", 4, Items(AnxietyClasses, <<3, 4, 3>>)),
      InputPred("high", 8, Items(AnxietyClasses, <<1, 1, 8>>)) }

EegResults(emotion, anxiety) == [tag |-> "eeg", emotion |-> emotion, anxiety |-> anxiety]

EegInputs ==
    { None }
    \cup { EegResults(e, a) : e \in EegEmotionPreds, a \in EegAnxietyPreds }
    \* predictions without a 'probabilities' key, as the tests pass them
    \cup { EegResults(InputPred("relaxed", 8, <<>>), InputPred("low", 8, <<>>)),
           EegResults(InputPred("happy", 9, <<>>), InputPred("low", 9, <<>>)) }
    \* a session whose anxiety_results column is NULL
    \cup { EegResults(InputPred("happy", 5, Items(CnnClasses, <<5, 1, 2, 1, 1>>)), None) }

Sentiments ==
    { [label |-> "positive", score |-> 8],
      [label |-> "negative", score |-> 9],
      [label |-> "neutral", score |-> 5],
      \* a label outside the mapping of _text_to_emotion
      [label |-> "mixed", score |-> 5] }

Depressions ==
    { None,                 \* session.depression_results is NULL
      [label |-> "not_depressed", confidence |-> 9],
      [label |-> "moderate", confidence |-> 6],
      [label |-> "severe", confidence |-> 6],
      [label |-> "severe", confidence |-> 7],
      [label |-> "severe", confidence |-> 8] }

SafetyFlags ==
    { [has_crisis_indicators |-> f] : f \in {"absent", "False", "True"} }

TextInputs ==
    { None }
    \cup { [tag |-> "text", sentiment |-> s, anxiety_keywords |-> [level |-> l],
            depression |-> d, safety_flags |-> f] :
           s \in Sentiments, l \in {"low", "moderate", "high"},
           d \in Depressions, f \in SafetyFlags }

Calibration(w) == [tag |-> "calibration", weights |-> w]

CalibrationInputs ==
    { None,
      Calibration([k \in {"eeg_emotion_weight", "text_emotion_weight"} |->
                    IF k = "eeg_emotion_weight" THEN 6 ELSE 4]),
      Calibration([k \in {"eeg_emotion_weight", "text_emotion_weight"} |-> 9]) }

FusionMethods == {"attention", "bayesian", "ensemble"}

-----------------------------------------------------------------------------
(* fuse_predictions, one action per step of its body *)

Init ==
    /\ pc = "idle"
    /\ eeg_results = None
    /\ text_results = None
    /\ user_calibration = None
    /\ fusion_method = "attention"
    /\ fusion_results = None
    /\ risk_assessment = None
    /\ result = None
    /\ outcome = "none"
    /\ trace = <<>>
    /\ fusion_explanation = None
    /\ calls = 0
    /\ engine = NewEngine
    /\ recording = None
    /\ validation_result = None
    /\ filtered_data = None
    /\ epoch_length = None
    /\ overlap = None
    /\ epochs = None
    /\ bands_data = None
    /\ psd = None
    /\ features = None
    /\ session = None
    /\ task = None
    /\ response = None

\* a caller invokes fuse_predictions(eeg, text, cal, method)
Call(eeg, text, cal, method) ==
    /\ pc = "idle"
    /\ calls < MaxCalls
    /\ pc' = "safety"
    /\ eeg_results' = eeg
    /\ text_results' = text
    /\ user_calibration' = cal
    /\ fusion_method' = method
    /\ UNCHANGED <<fusion_results, risk_assessment, result, outcome, trace,
                   fusion_explanation, calls, engine, signalVars, sessionVars>>

\* any caller, any arguments; a calibration is only read in attention mode
FusePredictions ==
    /\ pc = "idle"
    /\ \E eeg \in EegInputs, text \in TextInputs, method \in FusionMethods :
         \E cal \in (IF method = "attention" THEN CalibrationInputs ELSE {None}) :
             Call(eeg, text, cal, method)

\* except Exception as e: raise ValueError(...)   (lines 113-115)
Fail(step) ==
    /\ pc' = "done"
    /\ outcome' = "raised"
    /\ result' = Raise("ValueError")
    /\ trace' = Append(trace, step)

\* mutant: the safety rules are skipped in bayesian mode
SafetyStep_SkippedForBayesian ==
    /\ pc = "safety"
    /\ LET safety_override ==
               IF fusion_method = "bayesian" THEN None
               ELSE ApplySafetyRules(eeg_results, text_results)
       IN IF IsRaise(safety_override) THEN Fail("safety")
          ELSE IF safety_override # None
          THEN /\ pc' = "done"
               /\ outcome' = "returned"
               /\ result' = safety_override
               /\ trace' = Append(trace, "safety")
          ELSE /\ pc' = "fusion"
               /\ trace' = IF fusion_method = "bayesian" THEN trace
                           ELSE Append(trace, "safety")
               /\ UNCHANGED <<result, outcome>>
    /\ UNCHANGED <<eeg_results, text_results, user_calibration, fusion_method,
                   fusion_results, risk_assessment, fusion_explanation, calls, engine, signalVars, sessionVars>>

\* lines 80-83
SafetyStep ==
    /\ pc = "safety"
    /\ LET safety_override == ApplySafetyRules(eeg_results, text_results)
       IN IF IsRaise(safety_override) THEN Fail("safety")
          ELSE IF safety_override # None
          THEN /\ pc' = "done"
               /\ outcome' = "returned"
               /\ result' = safety_override
               /\ trace' = Append(trace, "safety")
          ELSE /\ pc' = "fusion"
               /\ trace' = Append(trace, "safety")
               /\ UNCHANGED <<result, outcome>>
    /\ UNCHANGED <<eeg_results, text_results, user_calibration, fusion_method,
                   fusion_results, risk_assessment, fusion_explanation, calls, engine, signalVars, sessionVars>>

\* lines 85-91
ChooseFusion(self, eeg, text, cal, method) ==
    IF method = "attention" THEN AttentionFusion(eeg, text, cal)
    ELSE IF method = "bayesian" THEN BayesianFusion(self, eeg, text)
    ELSE EnsembleFusion(self, eeg, text)

\* mutant: a bayesian call keeps its emotion posterior as the engine's prior
FusionStep_LearnsPriors ==
    /\ pc = "fusion"
    /\ LET fr == ChooseFusion(engine, eeg_results, text_results, user_calibration, fusion_method)
       IN IF IsRaise(fr)
          THEN Fail("fusion") /\ UNCHANGED <<fusion_results, engine>>
          ELSE /\ pc' = "risk"
               /\ fusion_results' = fr
               /\ trace' = Append(trace, "fusion")
               /\ engine' = IF fusion_method = "bayesian"
                             THEN [engine EXCEPT !.priors.emotion = fr.emotion.probabilities]
                             ELSE engine
               /\ UNCHANGED <<result, outcome>>
    /\ UNCHANGED <<eeg_results, text_results, user_calibration, fusion_method,
                   risk_assessment, fusion_explanation, calls, signalVars, sessionVars>>

FusionStep ==
    /\ pc = "fusion"
    /\ LET fr == ChooseFusion(engine, eeg_results, text_results, user_calibration, fusion_method)
       IN IF IsRaise(fr)
          THEN Fail("fusion") /\ UNCHANGED fusion_results
          ELSE /\ pc' = "risk"
               /\ fusion_results' = fr
               /\ trace' = Append(trace, "fusion")
               /\ UNCHANGED <<result, outcome>>
    /\ UNCHANGED <<eeg_results, text_results, user_calibration, fusion_method,
                   risk_assessment, fusion_explanation, calls, engine, signalVars, sessionVars>>

\* lines 93-94
RiskStep ==
    /\ pc = "risk"
    /\ LET ra == AssessRiskLevelAdvanced(fusion_results, text_results)
       IN IF IsRaise(ra)
          THEN Fail("risk") /\ UNCHANGED risk_assessment
          ELSE /\ pc' = "explain"
               /\ risk_assessment' = ra
               /\ trace' = Append(trace, "risk")
               /\ UNCHANGED <<result, outcome>>
    /\ UNCHANGED <<eeg_results, text_results, user_calibration, fusion_method,
                   fusion_results, fusion_explanation, calls, engine, signalVars, sessionVars>>

\* lines 96-111
ExplainStep ==
    /\ pc = "explain"
    /\ pc' = "done"
    /\ outcome' = "returned"
    /\ result' = FusionReturn(fusion_results, risk_assessment,
                    GenerateExplanationWithImportance(eeg_results, text_results,
                        fusion_results, risk_assessment),
                    fusion_method)
    /\ trace' = Append(trace, "explanation")
    /\ UNCHANGED <<eeg_results, text_results, user_calibration, fusion_method,
                   fusion_results, risk_assessment, fusion_explanation, calls, engine, signalVars, sessionVars>>

\* the caller hands the returned dict to generate_fusion_explanation
ExplainResult ==
    /\ pc = "done"
    /\ outcome = "returned"
    /\ fusion_explanation = None
    /\ fusion_explanation' = [tag |-> "explanations", list |-> GenerateFusionExplanation(result)]
    /\ UNCHANGED <<pc, eeg_results, text_results, user_calibration, fusion_method,
                   fusion_results, risk_assessment, result, outcome, trace, calls, engine, signalVars, sessionVars>>

\* the call is over; the engine keeps nothing of it
Return ==
    /\ pc = "done"
    /\ pc' = "idle"
    /\ calls' = calls + 1
    /\ eeg_results' = None
    /\ text_results' = None
    /\ user_calibration' = None
    /\ fusion_method' = "attention"
    /\ fusion_results' = None
    /\ risk_assessment' = None
    /\ result' = None
    /\ outcome' = "none"
    /\ trace' = <<>>
    /\ fusion_explanation' = None
    /\ UNCHANGED <<engine, signalVars, sessionVars>>

Next ==
    \/ FusePredictions
    \/ SafetyStep
    \/ FusionStep
    \/ RiskStep
    \/ ExplainStep
    \/ ExplainResult
    \/ Return

Spec == Init /\ [][Next]_vars

-----------------------------------------------------------------------------
(* EEG signal processing: EEGProcessor (backend/app/services/ml/            *)
(* eeg_processor.py) and SignalProcessor, preprocess_eeg_signal,            *)
(* extract_eeg_epochs (backend/app/utils/signal_processing.py).             *)
(*                                                                         *)
(* A channel is modelled by its number of samples: the functions below     *)
(* slice, count and compare lengths and frequencies, and never branch on a *)
(* sample value.  The numpy slice data[start:stop] is the record           *)
(* [start, stop].  Seconds are in tenths, overlaps in hundredths; the      *)
(* inputs are values for which int() of the float product is the floor of  *)
(* the exact product.                                                      *)

Recording(samples, sampling_rate, has_eeg_channel) ==
    [tag |-> "recording", samples |-> samples, sampling_rate |-> sampling_rate,
     has_eeg_channel |-> has_eeg_channel]

\* data[start:stop] of an array of n samples: numpy clamps both ends to n
Slice(n, start, stop) == [start |-> Min(start, n), stop |-> Min(stop, n)]
SliceLen(e) == e.stop - e.start

\* EEGProcessor.sampling_rates
KnownSamplingRates == {128, 256, 512, 1000}

\* The column names carry the sampling rate when it is one of the known ones.
ValidateEegData(data) ==
    LET detected_sr == IF data.sampling_rate \in KnownSamplingRates
                       THEN data.sampling_rate ELSE 128
    IN IF ~data.has_eeg_channel
       THEN [tag |-> "validation", valid |-> FALSE, detected_sr |-> detected_sr,
             duration |-> Rat(0, 1)]
       ELSE [tag |-> "validation",
             \* duration < 2 makes the recording invalid
             valid |-> ~(data.samples < 2 * detected_sr),
             detected_sr |-> detected_sr,
             duration |-> Rat(data.samples, detected_sr)]

\* freq / self.nyquist >= 1, for a frequency in tenths of a hertz
AtOrAboveNyquist(freq10, fs) == 2 * freq10 >= 10 * fs

\* scipy.signal.filtfilt pads each end with 3 * max(len(a), len(b)) samples
\* and raises ValueError unless the input is longer than that
FiltfiltPadlen(ntaps) == 3 * ntaps

Signal(samples, filters, zscored) ==
    [tag |-> "signal", samples |-> samples, filters |-> filters, zscored |-> zscored]

\* an order-4 Butterworth band filter has 2 * 4 + 1 coefficients
ApplyBandpassFilter(data, fs, low10, high10) ==
    IF AtOrAboveNyquist(low10, fs) \/ AtOrAboveNyquist(high10, fs)
    THEN Raise("ValueError")
    ELSE IF data.samples <= FiltfiltPadlen(9) THEN Raise("ValueError")
    ELSE Signal(data.samples, Append(data.filters, "bandpass"), data.zscored)

\* iirnotch has 3 coefficients; every exception is swallowed (lines 65-67)
ApplyNotchFilter(data, fs, notch10, name) ==
    IF AtOrAboveNyquist(notch10, fs) THEN data            \* "too high, skipping"
    ELSE IF data.samples <= FiltfiltPadlen(3) THEN data
    ELSE Signal(data.samples, Append(data.filters, name), data.zscored)

PreprocessEegSignal(data, sampling_rate) ==
    LET centred == Signal(data.samples, <<>>, FALSE)
        bandpassed == ApplyBandpassFilter(centred, sampling_rate, 5, 450)
        notched50 == ApplyNotchFilter(bandpassed, sampling_rate, 500, "notch50")
        notched60 == ApplyNotchFilter(notched50, sampling_rate, 600, "notch60")
    IN IF IsRaise(bandpassed) THEN bandpassed
       ELSE IF IsRaise(notched50) THEN notched50
       ELSE IF IsRaise(notched60) THEN notched60
       ELSE Signal(notched60.samples, notched60.filters, TRUE)

\* int(epoch_length * sampling_rate), int(epoch_samples * (1 - overlap))
EpochSamples(epoch_length10, sampling_rate) == (epoch_length10 * sampling_rate) \div 10
StepSamples(epoch_samples, overlap100) == (epoch_samples * (100 - overlap100)) \div 100

\* list(range(0, stop, step)) for step > 0
Range(stop, step) ==
    IF stop <= 0 THEN <<>>
    ELSE [i \in 1..((stop - 1) \div step + 1) |-> (i - 1) * step]

EpochList(list) == [tag |-> "epochs", list |-> list]

\* mutant: no single-epoch fallback for data shorter than one epoch
ExtractEegEpochs_NoFallback(data, epoch_length10, overlap100, sampling_rate) ==
    LET epoch_samples == EpochSamples(epoch_length10, sampling_rate)
        step_samples == StepSamples(epoch_samples, overlap100)
        starts == Range(data.samples - epoch_samples + 1, step_samples)
    IN IF step_samples = 0 THEN Raise("ValueError")
       ELSE EpochList([i \in 1..Len(starts) |->
                          Slice(data.samples, starts[i], starts[i] + epoch_samples)])

ExtractEegEpochs(data, epoch_length10, overlap100, sampling_rate) ==
    LET epoch_samples == EpochSamples(epoch_length10, sampling_rate)
        step_samples == StepSamples(epoch_samples, overlap100)
        starts == Range(data.samples - epoch_samples + 1, step_samples)
    IN IF epoch_samples > data.samples
       THEN EpochList(<< Slice(data.samples, 0, data.samples) >>)    \* [data]
       \* range() arg 3 must not be zero
       ELSE IF step_samples = 0 THEN Raise("ValueError")
       ELSE EpochList([i \in 1..Len(starts) |->
                          Slice(data.samples, starts[i], starts[i] + epoch_samples)])

\* extract_band_powers(eeg_data, sr, epoch_length=4)
DefaultBandEpochLength == 4

\* The per-epoch band powers are left out: an entry is the epoch's sample range.
ExtractBandPowers(eeg_data, sr, band_epoch_length) ==
    LET epoch_samples == band_epoch_length * sr
        overlap_samples == epoch_samples \div 2
        starts == Range(eeg_data.samples - epoch_samples + 1, overlap_samples)
    IN IF overlap_samples = 0 THEN Raise("ValueError")
       ELSE [tag |-> "bands_data", times |-> starts,
             bands_per_epoch |->
                [i \in 1..Len(starts) |->
                    Slice(eeg_data.samples, starts[i], starts[i] + epoch_samples)]]

-----------------------------------------------------------------------------
(* SignalProcessor.compute_spectral_features *)

\* compute_spectral_features(data, nperseg=256)
DefaultNperseg == 256

\* signal.welch(data, fs, nperseg=min(nperseg, len(data))) has nperseg // 2 + 1
\* bins, bin k (from 1) at frequency (k - 1) * fs / nperseg; an empty input
\* gives empty arrays.  The power it finds is any non-negative vector: here a
\* floor in every bin and a peak in the bin at shape.peak_hz, if there is one.
Welch(data, fs, shape) ==
    LET nperseg == Min(DefaultNperseg, data.samples)
        nbins == IF data.samples = 0 THEN 0 ELSE nperseg \div 2 + 1
    IN [tag |-> "welch", fs |-> fs, nperseg |-> nperseg,
        psd |-> [k \in 1..nbins |->
                    IF (k - 1) * fs = shape.peak_hz * nperseg
                    THEN shape.floor + shape.peak ELSE shape.floor]]

\* the band edges (low, high) in half hertz
Bands ==
    Items(<<"delta", "theta", "alpha", "beta", "gamma">>,
          << <<1, 8>>, <<8, 16>>, <<16, 24>>, <<24, 60>>, <<60, 90>> >>)

\* np.logical_and(freqs >= low, freqs <= high) at bin k
InBand(w, k, band) ==
    /\ 2 * (k - 1) * w.fs >= band[1] * w.nperseg
    /\ 2 * (k - 1) * w.fs <= band[2] * w.nperseg

\* np.sum(psd[idx]), 0.0 when no bin is in the band
BandPower(w, band) ==
    SeqSum([k \in 1..Len(w.psd) |-> IF InBand(w, k, band) THEN w.psd[k] ELSE 0])

\* np.where(cumsum_psd >= 0.95 * cumsum_psd[-1])[0][0], counted from 1: the
\* first bin at which the running sum of the non-negative values reaches 95 %
EdgeIdx(values) ==
    LET total == SeqSum(values)
        reached(k) == 100 * RangeSum(values, 1, k) >= 95 * total
    IN CHOOSE k \in 1..Len(values) : reached(k) /\ (k = 1 \/ ~reached(k - 1))

\* the dict returned when the computation raised (line 175)
DefaultFeatures ==
    [tag |-> "features", band_powers |-> Items(Keys(Bands), <<0, 0, 0, 0, 0>>),
     total_power |-> "absent", spectral_edge |-> "absent", peak_frequency |-> "absent",
     alpha_beta_ratio |-> "absent", theta_beta_ratio |-> "absent"]

\* Frequencies are bin numbers; a ratio is a pair [n, d].  The spectral
\* entropy, a logarithm, is left out.
ComputeSpectralFeatures(w) ==
    IF Len(w.psd) = 0 THEN DefaultFeatures      \* cumsum_psd[-1] raises IndexError
    ELSE
    LET powers == [i \in 1..Len(Bands) |-> BandPower(w, Bands[i].v)]
        total_power_psd == SeqSum(w.psd)
        ratio(a, b) == IF a > 0 /\ b > 0 THEN Rat(a, b) ELSE Rat(0, 1)
    IN [tag |-> "features", band_powers |-> Items(Keys(Bands), powers),
        total_power |-> SeqSum(powers),
        spectral_edge |-> EdgeIdx(w.psd),
        peak_frequency |-> ArgMax(w.psd),
        alpha_beta_ratio |-> ratio(powers[3], powers[4]),
        theta_beta_ratio |-> ratio(powers[2], powers[4])]

-----------------------------------------------------------------------------
(* The recordings and arguments the signal functions are called with *)

SamplingRates == {64, 100, 128}

\* lengths around the 2 s validation limit and the 4 s band-power epoch
Lengths(sr) == {0, 20, 2 * sr - 1, 2 * sr, 3 * sr, 4 * sr, 5 * sr}

Recordings ==
    UNION { { Recording(n, sr, TRUE) : n \in Lengths(sr) } : sr \in SamplingRates }
    \* a file with no EEG column
    \cup { Recording(640, 128, FALSE) }

\* <<epoch_length, overlap>>: seconds in tenths, overlaps in hundredths of [0, 1)
EpochArgs ==
    ({5, 10, 20, 40} \X {0, 25, 50, 75}) \cup {<<5, 99>>, <<40, 99>>}

PsdShapes ==
    { [peak_hz |-> h, peak |-> 2, floor |-> f] : h \in {2, 4, 8, 10, 12, 30, 45, 50}, f \in {0, 1} }

-----------------------------------------------------------------------------
(* The signal functions as a caller applies them to one recording.  An    *)
(* upload is validated first (analysis.py, upload_eeg_file); the other     *)
(* functions are plain functions of the array they are given               *)
(* (ml_models/notebooks/eeg_analysis_demo.py calls them directly), so they *)
(* run whatever the validation said.  They are pure and do not read each   *)
(* other's output, so one is applied to a recording at a time.             *)

\* a recording is loaded and no function has been applied to it yet
Loaded ==
    /\ recording # None
    /\ filtered_data = None /\ epochs = None /\ bands_data = None /\ features = None

\* processor.validate_eeg_data(df)
Upload ==
    /\ recording = None
    /\ \E data \in Recordings :
          /\ recording' = data
          /\ validation_result' = ValidateEegData(data)
    /\ UNCHANGED <<filtered_data, epoch_length, overlap, epochs, bands_data, psd, features>>
    /\ UNCHANGED <<fusionVars, sessionVars>>

\* preprocess_eeg_signal(data, sampling_rate)
Preprocess ==
    /\ Loaded
    /\ filtered_data' = PreprocessEegSignal(recording, recording.sampling_rate)
    /\ UNCHANGED <<recording, validation_result, epoch_length, overlap, epochs,
                   bands_data, psd, features>>
    /\ UNCHANGED <<fusionVars, sessionVars>>

\* extract_eeg_epochs(data, epoch_length, overlap, sampling_rate)
Epoch ==
    /\ Loaded
    /\ \E args \in EpochArgs :
          /\ epoch_length' = args[1]
          /\ overlap' = args[2]
          /\ epochs' = ExtractEegEpochs(recording, args[1], args[2], recording.sampling_rate)
    /\ UNCHANGED <<recording, validation_result, filtered_data, bands_data, psd, features>>
    /\ UNCHANGED <<fusionVars, sessionVars>>

\* processor.extract_band_powers(eeg_data, sr)
BandPowers ==
    /\ Loaded
    /\ bands_data' = ExtractBandPowers(recording, recording.sampling_rate,
                                       DefaultBandEpochLength)
    /\ UNCHANGED <<recording, validation_result, filtered_data, epoch_length, overlap,
                   epochs, psd, features>>
    /\ UNCHANGED <<fusionVars, sessionVars>>

\* SignalProcessor(fs).compute_spectral_features(data)
Spectral ==
    /\ Loaded
    /\ \E shape \in PsdShapes :
          /\ psd' = Welch(recording, recording.sampling_rate, shape)
          /\ features' = ComputeSpectralFeatures(psd')
    /\ UNCHANGED <<recording, validation_result, filtered_data, epoch_length, overlap,
                   epochs, bands_data>>
    /\ UNCHANGED <<fusionVars, sessionVars>>

\* the caller is done with the recording
Discard ==
    /\ recording # None
    /\ recording' = None
    /\ validation_result' = None
    /\ filtered_data' = None
    /\ epoch_length' = None
    /\ overlap' = None
    /\ epochs' = None
    /\ bands_data' = None
    /\ psd' = None
    /\ features' = None
    /\ UNCHANGED <<fusionVars, sessionVars>>

SignalNext ==
    \/ Upload
    \/ Preprocess
    \/ Epoch
    \/ BandPowers
    \/ Spectral
    \/ Discard

SignalSpec == Init /\ [][SignalNext]_vars

-----------------------------------------------------------------------------
(* Analysis sessions: AnalysisSession (backend/app/models/session.py), the  *)
(* endpoints process_eeg and get_eeg_result (api/v1/endpoints/eeg.py) and   *)
(* fusion_analysis (api/v1/endpoints/fusion.py), and the background tasks   *)
(* process_eeg_file and process_combined_analysis (tasks/clearly_tasks.py). *)
(*                                                                         *)
(* One session row and the task queued for it.  A request handler reads    *)
(* the row once and answers from what it read; a db.commit() of the task   *)
(* is one step and makes the row visible to the handlers.  The stages of a *)
(* task between two commits call the processor, the model and the          *)
(* classifier; here a stage either finishes or raises, and a raise goes to *)
(* the task's except block.  Columns hold "NULL" or "set".                 *)

\* AnalysisSession(...): status is 'pending' (eeg.py line 103, the column default)
AnalysisSession(session_type, file_key, text_inputs) ==
    [tag |-> "session", session_type |-> session_type,
     file_key |-> file_key, text_inputs |-> text_inputs,
     status |-> "pending", error_message |-> "NULL",
     emotion_results |-> "NULL", depression_results |-> "NULL",
     fusion_results |-> "NULL",
     processing_started_at |-> "NULL", processing_completed_at |-> "NULL"]

\* a queued background task: its function, its position and the stages that
\* have finished
Task(name) == [tag |-> "task", name |-> name, pc |-> "queued", stages |-> <<>>]

\* what a handler answered, and the status it had read from the row
Response(endpoint, status, stored) ==
    [tag |-> "response", endpoint |-> endpoint, status |-> status, stored |-> stored]

StoredStatus == IF session = None THEN "no_row" ELSE session.status

\* process_eeg: create the session and queue process_eeg_file
ProcessEeg ==
    /\ session = None
    /\ session' = AnalysisSession("eeg", TRUE, FALSE)
    /\ task' = Task("process_eeg_file")
    /\ response' = Response("process_eeg", "queued", "pending")
    /\ UNCHANGED <<fusionVars, signalVars>>

\* a combined session, with or without an EEG file and a text input, and
\* process_combined_analysis queued for it
QueueCombinedAnalysis ==
    /\ session = None
    /\ \E file_key \in BOOLEAN, text_inputs \in BOOLEAN :
          session' = AnalysisSession("combined", file_key, text_inputs)
    /\ task' = Task("process_combined_analysis")
    /\ UNCHANGED response
    /\ UNCHANGED <<fusionVars, signalVars>>

\* lines 56-65 and 124-133: the session is found, status = "processing", commit
TaskStart ==
    /\ task # None /\ task.pc = "queued"
    /\ session' = [session EXCEPT !.status = "processing",
                                  !.processing_started_at = "set"]
    /\ task' = [task EXCEPT !.pc = "eeg"]
    /\ UNCHANGED response
    /\ UNCHANGED <<fusionVars, signalVars>>

\* a stage raised: control goes to the except block
Raises == task' = [task EXCEPT !.pc = "except"]

\* a stage finished: control goes on
Finishes(stage, next) == task' = [task EXCEPT !.pc = next, !.stages = Append(@, stage)]

\* lines 67-82 and 138-155: EEG processing and model inference
EegStage ==
    /\ task # None /\ task.pc = "eeg"
    /\ IF task.name = "process_eeg_file"
       THEN Finishes("eeg", "store") \/ Raises
       ELSE IF session.file_key
       THEN Finishes("eeg", "text") \/ Raises
       ELSE task' = [task EXCEPT !.pc = "text"]
    /\ UNCHANGED <<session, response>>
    /\ UNCHANGED <<fusionVars, signalVars>>

\* lines 157-162: text analysis, if the session has a text input
TextStage ==
    /\ task # None /\ task.pc = "text"
    /\ IF session.text_inputs
       THEN Finishes("text", "fusion") \/ Raises
       ELSE task' = [task EXCEPT !.pc = "fusion"]
    /\ UNCHANGED <<session, response>>
    /\ UNCHANGED <<fusionVars, signalVars>>

\* lines 164-166: fusion_engine.fuse_predictions(eeg_results, text_results)
FusionStage ==
    /\ task # None /\ task.pc = "fusion"
    /\ Finishes("fusion", "store") \/ Raises
    /\ UNCHANGED <<session, response>>
    /\ UNCHANGED <<fusionVars, signalVars>>

\* lines 84-96 and 168-180: results on the session, explanations,
\* status = "completed", commit
TaskStore ==
    /\ task # None /\ task.pc = "store"
    /\ \/ /\ session' =
               [session EXCEPT
                  !.emotion_results =
                      IF \E i \in 1..Len(task.stages) : task.stages[i] = "eeg"
                      THEN "set" ELSE "NULL",
                  !.depression_results =
                      IF \E i \in 1..Len(task.stages) : task.stages[i] = "text"
                      THEN "set" ELSE "NULL",
                  !.fusion_results =
                      IF task.name = "process_combined_analysis" THEN "set" ELSE @,
                  !.status = "completed",
                  !.processing_completed_at = "set"]
          /\ task' = [task EXCEPT !.pc = "ended"]
       \/ Raises /\ UNCHANGED session
    /\ UNCHANGED response
    /\ UNCHANGED <<fusionVars, signalVars>>

\* mutant: the except block records the error and leaves the status alone
TaskExcept_KeepsProcessing ==
    /\ task # None /\ task.pc = "except"
    /\ session' = [session EXCEPT !.error_message = "set",
                                  !.processing_completed_at = "set"]
    /\ task' = [task EXCEPT !.pc = "ended"]
    /\ UNCHANGED response
    /\ UNCHANGED <<fusionVars, signalVars>>

\* lines 100-110 and 184-193: status = "failed", error_message, commit
TaskExcept ==
    /\ task # None /\ task.pc = "except"
    /\ session' = [session EXCEPT !.status = "failed",
                                  !.error_message = "set",
                                  !.processing_completed_at = "set"]
    /\ task' = [task EXCEPT !.pc = "ended"]
    /\ UNCHANGED response
    /\ UNCHANGED <<fusionVars, signalVars>>

\* get_eeg_result: 404, 'pending', 'failed', and 'completed' for the rest
GetEegResult ==
    /\ response' =
          Response("get_eeg_result",
                   IF session = None THEN "404"
                   ELSE IF session.status = "pending" THEN "pending"
                   ELSE IF session.status = "failed" THEN "failed"
                   ELSE "completed",
                   StoredStatus)
    /\ UNCHANGED <<session, task>>
    /\ UNCHANGED <<fusionVars, signalVars>>

\* fusion_analysis: 404, 400 unless the session is completed, then the fusion
\* runs and its result is stored, or it raises and the answer is 500
FusionAnalysis ==
    /\ IF session = None
       THEN response' = Response("fusion_analysis", "404", StoredStatus)
            /\ UNCHANGED session
       ELSE IF session.status # "completed"
       THEN response' = Response("fusion_analysis", "400", StoredStatus)
            /\ UNCHANGED session
       ELSE \/ /\ session' = [session EXCEPT !.fusion_results = "set"]
               /\ response' = Response("fusion_analysis", "completed", StoredStatus)
            \/ /\ response' = Response("fusion_analysis", "500", StoredStatus)
               /\ UNCHANGED session
    /\ UNCHANGED task
    /\ UNCHANGED <<fusionVars, signalVars>>

SessionNext ==
    \/ ProcessEeg
    \/ QueueCombinedAnalysis
    \/ TaskStart
    \/ EegStage
    \/ TextStage
    \/ FusionStage
    \/ TaskStore
    \/ TaskExcept
    \/ GetEegResult
    \/ FusionAnalysis

SessionSpec == Init /\ [][SessionNext]_vars

-----------------------------------------------------------------------------
(* Properties *)

Done == pc = "done"
Returned == pc = "done" /\ outcome = "returned"
Raised == pc = "done" /\ outcome = "raised"
Overridden == Returned /\ result.safety_override = "True"

CrisisFlagged ==
    text_results # None /\ text_results.safety_flags.has_crisis_indicators = "True"

Severe ==
    /\ text_results # None
    /\ text_results.depression # None
    /\ text_results.depression.label = "severe"
SevereAbove07 == Severe /\ text_results.depression.confidence > 7
SevereUpTo07 == Severe /\ text_results.depression.confidence <= 7

\* C1: whenever the text carries has_crisis_indicators = True, the finished
\* call has returned risk_level high, confidence 0.95, safety_override True and
\* the crisis explanation, whatever the EEG input, the method and the other
\* text fields.
C1_CrisisAlwaysOverrides ==
    (Done /\ CrisisFlagged) =>
        /\ outcome = "returned"
        /\ result.risk_level = "high"
        /\ result.safety_override = "True"
        /\ result.confidence = 95
        /\ result.explanation[1] = "crisis_detected"

\* a crisis text with depression not_depressed and a maximally stable EEG
C1_Witness_StableEegCrisis ==
    /\ Returned /\ CrisisFlagged
    /\ text_results.depression # None
    /\ text_results.depression.label = "not_depressed"
    /\ eeg_results # None
    /\ eeg_results.emotion.label = "relaxed"
    /\ eeg_results.anxiety.label = "low"
    /\ fusion_method = "bayesian"

\* C2: without a crisis flag, a severe depression label with confidence
\* strictly above 0.7 gives risk_level high, confidence 0.9 and
\* safety_override True; at confidence 0.7 or below no override is returned.
C2_SevereDepressionOverride ==
    /\ (Done /\ ~CrisisFlagged /\ SevereAbove07) =>
            /\ outcome = "returned"
            /\ result.risk_level = "high"
            /\ result.confidence = 90
            /\ result.safety_override = "True"
            /\ trace = <<"safety">>
    /\ (pc \notin {"idle", "safety"} /\ ~CrisisFlagged /\ SevereUpTo07) =>
            /\ ~Overridden
            /\ (pc = "done" => Len(trace) > 1)

\* the rule has fired over a maximally stable EEG
C2_Witness_Fires ==
    /\ Overridden /\ ~CrisisFlagged /\ SevereAbove07
    /\ result.confidence = 90
    /\ eeg_results # None
    /\ eeg_results.emotion.label = "relaxed"
    /\ eeg_results.anxiety.label = "low"
    /\ fusion_method = "ensemble"

IsPrefix(s, t) == Len(s) <= Len(t) /\ \A i \in 1..Len(s) : s[i] = t[i]
AllSteps == <<"safety", "fusion", "risk", "explanation">>
OverrideDue(eeg, text) ==
    LET r == ApplySafetyRules(eeg, text) IN r # None /\ ~IsRaise(r)

\* C3: the safety rules are evaluated first in every call and for every
\* method; when a rule fires the call returns with no fusion, risk or
\* explanation step run; otherwise the steps run in the order fusion, risk
\* aggregation, explanation.
C3_SafetyFirst ==
    /\ IsPrefix(trace, AllSteps)
    /\ (pc \in {"fusion", "risk", "explain", "done"} => trace # <<>> /\ trace[1] = "safety")
    /\ (pc # "idle" /\ OverrideDue(eeg_results, text_results)) =>
            /\ fusion_results = None
            /\ risk_assessment = None
            /\ pc \in {"safety", "done"}
            /\ (Done => Overridden /\ trace = <<"safety">>)
    /\ (Returned /\ ~Overridden) => trace = AllSteps

\* an override has short-circuited a bayesian call with both sources given
C3_Witness_ShortCircuit ==
    /\ Overridden /\ trace = <<"safety">> /\ fusion_method = "bayesian"
    /\ eeg_results # None /\ fusion_results = None /\ risk_assessment = None

\* C4: the safety-rule evaluation never raises: no call ends with an error
\* raised by the safety step.
C4_SafetyCheckNeverRaises ==
    ~(Raised /\ trace = <<"safety">>)

\* C5: a call with neither EEG nor text results fails; it returns no risk
\* assessment.
C5_NoInputFails ==
    (Done /\ eeg_results = None /\ text_results = None) => outcome = "raised"

ProbSum(pred) == SeqSum(Values(pred.probabilities))

\* sum(probabilities) is 1 within 1e-6
SumsToOne(pred) ==
    LET diff == IF ProbSum(pred) >= pred.den THEN ProbSum(pred) - pred.den
                ELSE pred.den - ProbSum(pred)
    IN IF diff = 0 THEN TRUE
       ELSE IF diff >= 2000 THEN FALSE
       ELSE diff * 1000000 <= pred.den

\* an input prediction that carries probabilities which do not sum to 1
BadProbabilities(pred) ==
    pred # None /\ pred.probabilities # <<>> /\ ~SumsToOne(pred)

\* C6: a call given a prediction whose probabilities do not sum to 1 fails.
C6_InvalidPredictionFails ==
    (Done /\ eeg_results # None
          /\ (BadProbabilities(eeg_results.emotion) \/ BadProbabilities(eeg_results.anxiety))
          /\ ~OverrideDue(eeg_results, text_results))
        => outcome = "raised"

CalSum(cal, target) ==
    cal.weights["eeg_" \o target \o "_weight"] + cal.weights["text_" \o target \o "_weight"]

\* C7: in attention mode a supplied calibration replaces the weights of the
\* target it names, and a calibration whose two weights for a target do not
\* sum to 1 makes the call fail.
C7_CalibrationValidated ==
    /\ (pc \in {"risk", "explain"} /\ fusion_method = "attention" /\ user_calibration # None) =>
            /\ fusion_results.importance.emotion.eeg
                 = Rat(user_calibration.weights["eeg_emotion_weight"], 10)
            /\ fusion_results.importance.emotion.text
                 = Rat(user_calibration.weights["text_emotion_weight"], 10)
    /\ (Done /\ fusion_method = "attention" /\ user_calibration # None
             /\ CalSum(user_calibration, "emotion") # 10
             /\ eeg_results # None /\ text_results # None
             /\ ~OverrideDue(eeg_results, text_results))
            => outcome = "raised"

EegOnly == eeg_results # None /\ text_results = None
TextOnly == eeg_results = None /\ text_results # None

LabelsFollowEeg ==
    /\ (eeg_results.emotion # None =>
            result.emotion_fusion.label = eeg_results.emotion.label)
    /\ (eeg_results.anxiety # None =>
            result.anxiety_fusion.label = eeg_results.anxiety.label)

\* C8 as stated: with EEG results only, every fusion method returns the EEG
\* emotion label and the EEG anxiety label.
C8_EegOnlyLabelsAnyMethod ==
    (Returned /\ EegOnly) => LabelsFollowEeg

\* C8 amended: with EEG results only, attention mode returns a result whose
\* fused emotion and anxiety labels are the EEG predictions' labels.
C8_EegOnlyLabelsAttention ==
    (Done /\ EegOnly /\ fusion_method = "attention") =>
        outcome = "returned" /\ LabelsFollowEeg

C8_Witness_EegOnlyAttention ==
    /\ Returned /\ EegOnly /\ fusion_method = "attention"
    /\ eeg_results.emotion.label = "sad"
    /\ eeg_results.anxiety # None
    /\ eeg_results.anxiety.label = "high"
    /\ result.emotion_fusion.label = "sad"

AgreementSentences == {"consistent_findings", "partial_agreement", "some_differences"}

\* C9: when exactly one of the two sources is given, no fused prediction
\* carries an agreement field and the fusion explanation has no sentence on
\* whether EEG and text agree or differ.
C9_NoAgreementForOneSource ==
    (Returned /\ ~Overridden /\ (EegOnly \/ TextOnly)) =>
        /\ result.emotion_fusion.agreement = "absent"
        /\ result.anxiety_fusion.agreement = "absent"
        /\ (fusion_explanation # None =>
                \A i \in 1..Len(fusion_explanation.list) :
                    fusion_explanation.list[i] \notin AgreementSentences)

GoodProbabilities(pred) ==
    pred # None /\ pred.probabilities # <<>> /\ SumsToOne(pred)

ValidInputs ==
    /\ eeg_results # None \/ text_results # None
    /\ eeg_results # None =>
          GoodProbabilities(eeg_results.emotion) /\ GoodProbabilities(eeg_results.anxiety)

\* C10: given input predictions whose probabilities sum to 1, the
\* probabilities of the returned emotion_fusion and anxiety_fusion sum to 1.
C10_FusedProbabilitiesSumToOne ==
    (Returned /\ ~Overridden /\ ValidInputs) =>
        /\ SumsToOne(result.emotion_fusion)
        /\ SumsToOne(result.anxiety_fusion)

\* what fuse_predictions(eeg, text, cal, method) gives on a newly built engine
FreshEngineResult(eeg, text, cal, method) ==
    LET safety_override == ApplySafetyRules(eeg, text)
        fr == ChooseFusion(NewEngine, eeg, text, cal, method)
        ra == AssessRiskLevelAdvanced(fr, text)
    IN IF IsRaise(safety_override) THEN Raise("ValueError")
       ELSE IF safety_override # None THEN safety_override
       ELSE IF IsRaise(fr) THEN Raise("ValueError")
       ELSE IF IsRaise(ra) THEN Raise("ValueError")
       ELSE FusionReturn(fr, ra, GenerateExplanationWithImportance(eeg, text, fr, ra), method)

Arguments == <<eeg_results, text_results, user_calibration, fusion_method>>

ScenarioB ==
    /\ fusion_method = "attention" /\ user_calibration = None
    /\ eeg_results # None /\ text_results # None
    /\ eeg_results.emotion.label = "relaxed"
    /\ eeg_results.emotion.confidence = Rat(8, 10)
    /\ text_results.sentiment = [label |-> "negative", score |-> 9]
    /\ ~CrisisFlagged /\ ~Severe

\* C12: in attention mode, for EEG emotion relaxed (0.8) and text sentiment
\* negative (0.9) without crisis flag or severe depression, whatever the
\* anxiety and depression fields, the fused emotion has agreement False and
\* the returned risk_level is above stable.
C12_DisagreementRaisesRisk ==
    (Returned /\ ScenarioB) =>
        /\ result.emotion_fusion.agreement = "False"
        /\ result.risk_level # "stable"

\* C13: given only text predictions and no override, in every mode the fused
\* emotion label is happy for a positive sentiment, sad for a negative one and
\* neutral for any other label, and the fused anxiety label is
\* anxiety_keywords.level; sentiment positive, anxiety level low and
\* depression not_depressed return risk_level stable.
C13_TextOnlyLabels ==
    /\ (Returned /\ TextOnly /\ ~Overridden) =>
          /\ (text_results.sentiment.label = "positive" =>
                 result.emotion_fusion.label = "happy")
          /\ (text_results.sentiment.label = "negative" =>
                 result.emotion_fusion.label = "sad")
          /\ (text_results.sentiment.label \notin {"positive", "negative"} =>
                 result.emotion_fusion.label = "neutral")
          /\ result.anxiety_fusion.label = text_results.anxiety_keywords.level
    /\ (Done /\ TextOnly /\ ~CrisisFlagged
             /\ text_results.sentiment.label = "positive"
             /\ text_results.anxiety_keywords.level = "low"
             /\ text_results.depression # None
             /\ text_results.depression.label = "not_depressed") =>
          /\ outcome = "returned"
          /\ result.risk_level = "stable"

\* the text-only call of test_text_only_analysis has returned
C13_Witness_TextOnlyStable ==
    /\ Returned /\ TextOnly /\ ~Overridden
    /\ text_results.sentiment = [label |-> "positive", score |-> 8]
    /\ text_results.anxiety_keywords.level = "low"
    /\ text_results.depression = [label |-> "not_depressed", confidence |-> 9]
    /\ result.emotion_fusion.label = "happy"
    /\ result.anxiety_fusion.label = "low"
    /\ result.risk_level = "stable"

\* the bucket of a risk score in tenths under the thresholds 1.5, 1.0, 0.5
RiskBucket(score10) ==
    IF score10 >= 15 THEN "high"
    ELSE IF score10 >= 10 THEN "moderate"
    ELSE IF score10 >= 5 THEN "mild"
    ELSE "stable"

\* C14: every result that is not a safety override has a risk_score in
\* [0, 2], a risk_level that is the bucket of that score under the thresholds
\* 1.5 / 1.0 / 0.5, and a confidence that is the constant of that bucket
\* (0.85 high, 0.75 moderate, 0.65 mild, 0.7 stable), so within [0, 1] and
\* the same whatever the arguments of the call.
C14_RiskBuckets ==
    (Returned /\ ~Overridden) =>
        /\ result.risk_score \in 0..20
        /\ result.risk_level \in {"stable", "mild", "moderate", "high"}
        /\ result.risk_level = RiskBucket(result.risk_score)
        /\ result.confidence =
              (CASE result.risk_level = "high" -> 85
                 [] result.risk_level = "moderate" -> 75
                 [] result.risk_level = "mild" -> 65
                 [] OTHER -> 70)
        /\ result.confidence \in 0..100

\* a fusion of both sources has returned with a score exactly on the moderate
\* threshold
C14_Witness_OnModerateThreshold ==
    /\ Returned /\ ~Overridden
    /\ eeg_results # None /\ text_results # None
    /\ result.risk_score = 10
    /\ result.risk_level = "moderate"
    /\ result.confidence = 75

\* _assess_risk_level_advanced has just returned for the current arguments
RiskAssessed == pc = "explain" /\ risk_assessment # None

\* the high-risk scenario of test_risk_assessment_logic
HighRiskScenario ==
    /\ fusion_results.emotion.label \in {"sad", "stressed"}
    /\ fusion_results.anxiety.label = "high"
    /\ Severe

\* C20: when the fused emotion is sad or stressed (whatever its confidence),
\* the fused anxiety is high and the text depression is severe, the risk
\* assessment has a level of moderate or high and a confidence in [0, 1].
C20_HighRiskScenario ==
    (RiskAssessed /\ HighRiskScenario) =>
        /\ risk_assessment.level \in {"moderate", "high"}
        /\ risk_assessment.confidence \in 0..100

\* the scenario was assessed with an emotion confidence of at most 0.7, the
\* lower of the two emotion factors
C20_Witness_LowConfidenceEmotion ==
    /\ RiskAssessed /\ HighRiskScenario
    /\ ~RatGT(fusion_results.emotion.confidence, Rat(7, 10))
    /\ risk_assessment.risk_factors = <<1, 2, 2>>
    /\ risk_assessment.level = "high"

\* the fused emotion adds a factor to risk_factors (line 437)
EmotionContributes == fusion_results.emotion.label \in {"sad", "stressed"}

\* the targets that have a factor in risk_factors
PresentTargets ==
    (IF EmotionContributes THEN {"emotion"} ELSE {})
    \cup {"anxiety"}
    \cup (IF text_results # None THEN {"depression"} ELSE {})

\* the factor a present target appended to risk_factors
Severity(target) ==
    LET rf == risk_assessment.risk_factors
        off == IF EmotionContributes THEN 1 ELSE 0
    IN CASE target = "emotion" -> rf[1]
         [] target = "anxiety" -> rf[off + 1]
         [] OTHER -> rf[off + 2]

\* the documented weight of a target, in tenths
OwnWeight(target) ==
    CASE target = "emotion" -> 3 [] target = "anxiety" -> 4 [] OTHER -> 3

AllTargets == <<"emotion", "anxiety", "depression">>

\* sum of the own weights of the present targets, and of weight * severity
PresentWeight ==
    SeqSum([i \in 1..3 |-> IF AllTargets[i] \in PresentTargets
                           THEN OwnWeight(AllTargets[i]) ELSE 0])
PresentWeightedSeverity ==
    SeqSum([i \in 1..3 |-> IF AllTargets[i] \in PresentTargets
                           THEN OwnWeight(AllTargets[i]) * Severity(AllTargets[i])
                           ELSE 0])

\* C21: the risk score is sum(w_i * severity_i) / sum(w_i) over the targets
\* that are present, each with its own weight (emotion 0.3, anxiety 0.4,
\* depression 0.3), for every combination of an emotion contribution and a
\* text input being present or absent.
C21_RenormalisedOwnWeights ==
    RiskAssessed =>
        risk_assessment.risk_score * PresentWeight = 10 * PresentWeightedSeverity

\* what the emotion contributed: its factor, or nothing
EmotionContribution == IF EmotionContributes THEN Severity("emotion") ELSE 0

\* C22: the severity contribution of a target depends on its fused label
\* only, never on the fused confidence: emotion sad or stressed 2, neutral 1,
\* any other emotion 0; anxiety low/moderate/high 0/1/2; depression
\* not_depressed/moderate/severe 0/1/2.
C22_SeverityFromLabelOnly ==
    RiskAssessed =>
        /\ EmotionContribution =
              (CASE fusion_results.emotion.label \in {"sad", "stressed"} -> 2
                 [] fusion_results.emotion.label = "neutral" -> 1
                 [] OTHER -> 0)
        /\ Severity("anxiety") =
              (CASE fusion_results.anxiety.label = "high" -> 2
                 [] fusion_results.anxiety.label = "moderate" -> 1
                 [] OTHER -> 0)
        /\ text_results # None =>
              Severity("depression") =
                 (CASE text_results.depression.label = "severe" -> 2
                    [] text_results.depression.label = "moderate" -> 1
                    [] OTHER -> 0)

\* the fusion step of the current call has produced fusion_results
Fused == fusion_results # None

BothSources == eeg_results # None /\ text_results # None

RatEQ(a, b) == a.n * b.d = b.n * a.d

\* conf_eeg / (conf_eeg + conf_text)
ConfidenceShare(conf_eeg, conf_text) ==
    Rat(conf_eeg.n * conf_text.d, conf_eeg.n * conf_text.d + conf_text.n * conf_eeg.d)

\* w.eeg = conf_eeg / (conf_eeg + conf_text), w.text = 1 - w.eeg, both in [0, 1]
FromConfidences(w, eeg_pred, text_pred) ==
    /\ RatEQ(w.eeg, ConfidenceShare(eeg_pred.confidence, text_pred.confidence))
    /\ w.eeg.n * w.text.d + w.text.n * w.eeg.d = w.eeg.d * w.text.d
    /\ w.eeg.n \in 0..w.eeg.d
    /\ w.text.n \in 0..w.text.d

\* the emotion weights of a two-source attention call without calibration
\* come from the two emotion confidences
EmotionWeightsFromConfidences ==
    (Fused /\ fusion_method = "attention" /\ user_calibration = None /\ BothSources) =>
        FromConfidences(fusion_results.importance.emotion,
                        eeg_results.emotion, TextToEmotion(text_results))

\* C23: in attention mode without calibration, with both sources present the
\* weights of each target (emotion and anxiety) are
\* w_eeg = conf_eeg / (conf_eeg + conf_text) and w_text = 1 - w_eeg of that
\* target's two confidences, in [0, 1] and summing to 1; with one source
\* present the weight of that source is 1.
C23_WeightsFromConfidences ==
    (Fused /\ fusion_method = "attention" /\ user_calibration = None) =>
        /\ (BothSources /\ eeg_results.anxiety # None) =>
              /\ FromConfidences(fusion_results.importance.emotion,
                                 eeg_results.emotion, TextToEmotion(text_results))
              /\ FromConfidences(fusion_results.importance.anxiety,
                                 eeg_results.anxiety, TextToAnxiety(text_results))
        /\ EegOnly =>
              /\ RatEQ(fusion_results.importance.emotion.eeg, Rat(1, 1))
              /\ RatEQ(fusion_results.importance.anxiety.eeg, Rat(1, 1))
        /\ TextOnly =>
              /\ RatEQ(fusion_results.importance.emotion.text, Rat(1, 1))
              /\ RatEQ(fusion_results.importance.anxiety.text, Rat(1, 1))

\* pred['probabilities'][label], 0 for a label the mapping does not have
ProbOf(pred, label) ==
    LET hit == {i \in 1..Len(pred.probabilities) : pred.probabilities[i].k = label}
    IN IF hit = {} THEN 0 ELSE pred.probabilities[CHOOSE i \in hit : TRUE].v

LabelsOf(pred) == {pred.probabilities[i].k : i \in 1..Len(pred.probabilities)}

\* fused[label] = w.eeg * eeg_pred[label] + w.text * text_pred[label] for every
\* label of either source; fused.label has the largest fused probability and
\* fused.confidence is that probability
SameLabelWeightedSum(fused, eeg_pred, text_pred, w) ==
    /\ LabelsOf(fused) = LabelsOf(eeg_pred) \cup LabelsOf(text_pred)
    /\ \A l \in LabelsOf(eeg_pred) \cup LabelsOf(text_pred) :
          ProbOf(fused, l) * w.eeg.d * eeg_pred.den * w.text.d * text_pred.den
          = fused.den * ( w.eeg.n * ProbOf(eeg_pred, l) * w.text.d * text_pred.den
                        + w.text.n * ProbOf(text_pred, l) * w.eeg.d * eeg_pred.den )
    /\ \A l \in LabelsOf(fused) : ProbOf(fused, l) <= ProbOf(fused, fused.label)
    /\ RatEQ(fused.confidence, Rat(ProbOf(fused, fused.label), fused.den))

\* C24: in attention mode with both sources present, the fused probability
\* of every label is w_eeg times the EEG probability of that label plus w_text
\* times the text probability of that label, over the union of the two label
\* sets and whatever the key order of the two mappings; the fused label is the
\* argmax and the fused confidence the maximum.
C24_FusedByLabel ==
    (Fused /\ fusion_method = "attention" /\ BothSources) =>
        /\ SameLabelWeightedSum(fusion_results.emotion, eeg_results.emotion,
                                TextToEmotion(text_results),
                                fusion_results.importance.emotion)
        /\ eeg_results.anxiety # None =>
              SameLabelWeightedSum(fusion_results.anxiety, eeg_results.anxiety,
                                   TextToAnxiety(text_results),
                                   fusion_results.importance.anxiety)

\* the factor a source contributes to a label: its probability of that label,
\* the uniform 1/n when it has none, and 1 when the source is missing
SourceFactor(pred, label, n) ==
    IF pred = None THEN Rat(1, 1)
    ELSE IF label \in LabelsOf(pred) THEN Rat(ProbOf(pred, label), pred.den)
    ELSE Rat(1, n)

\* prior[label] * factor of the EEG source * factor of the text source
Unnormalised(prior, eeg_pred, text_pred, label) ==
    LET fe == SourceFactor(eeg_pred, label, Len(prior))
        ft == SourceFactor(text_pred, label, Len(prior))
        prior_of == prior[CHOOSE i \in 1..Len(prior) : prior[i].k = label].v
    IN Rat(prior_of * fe.n * ft.n, fe.d * ft.d)

\* fused is the distribution over the prior's labels proportional to
\* Unnormalised and summing to 1
PosteriorOf(fused, prior, eeg_pred, text_pred) ==
    /\ Keys(fused.probabilities) = Keys(prior)
    /\ fused.den > 0
    /\ SeqSum(Values(fused.probabilities)) = fused.den
    /\ \A l1, l2 \in LabelsOf(fused) :
          LET u1 == Unnormalised(prior, eeg_pred, text_pred, l1)
              u2 == Unnormalised(prior, eeg_pred, text_pred, l2)
          IN ProbOf(fused, l1) * u2.n * u1.d = ProbOf(fused, l2) * u1.n * u2.d

\* a source that has no probability for any label counts as a missing source
OrMissing(pred) == IF pred # None /\ pred.probabilities = <<>> THEN None ELSE pred

BayesianPosterior(fused, prior, eeg_pred, text_pred) ==
    /\ PosteriorOf(fused, prior, eeg_pred, text_pred)
    /\ PosteriorOf(fused, prior, OrMissing(eeg_pred), OrMissing(text_pred))
    /\ \A l \in LabelsOf(fused) : ProbOf(fused, l) <= ProbOf(fused, fused.label)
    /\ RatEQ(fused.confidence, Rat(ProbOf(fused, fused.label), fused.den))
    /\ fused.method = "bayesian"

\* C25: in bayesian mode the fused distribution of each target is the fixed
\* prior multiplied label by label by the probabilities of each available
\* source and renormalised to sum 1; a label a source has no probability for
\* gets the uniform factor 1/n, and a source that is missing or has no
\* probabilities leaves the posterior as it is without that source; the fused
\* label is the argmax of the posterior and the confidence is its value.
C25_BayesianPosterior ==
    (Fused /\ fusion_method = "bayesian") =>
        /\ BayesianPosterior(fusion_results.emotion, NewEngine.priors.emotion,
                             IF eeg_results # None THEN eeg_results.emotion ELSE None,
                             TextToEmotion(text_results))
        /\ BayesianPosterior(fusion_results.anxiety, NewEngine.priors.anxiety,
                             IF eeg_results # None THEN eeg_results.anxiety ELSE None,
                             TextToAnxiety(text_results))

\* a bayesian fusion of an EEG prediction without probabilities and a negative
\* text: the posterior is prior x text, sad at 120/205
C25_Witness_EegWithoutProbabilities ==
    /\ Fused /\ fusion_method = "bayesian" /\ BothSources
    /\ eeg_results.emotion.probabilities = <<>>
    /\ text_results.sentiment.label = "negative"
    /\ fusion_results.emotion.label = "sad"
    /\ fusion_results.emotion.confidence = Rat(24, 41)

\* fused is the distribution proportional, label by label, to the mean of the
\* distributions a and b, summing to 1, and fused.label is its argmax
AverageOf(fused, a, b) ==
    /\ LabelsOf(fused) = LabelsOf(a) \cup LabelsOf(b)
    /\ fused.den > 0
    /\ SeqSum(Values(fused.probabilities)) = fused.den
    /\ \A l1, l2 \in LabelsOf(fused) :
          ProbOf(fused, l1) * (ProbOf(a, l2) * b.den + ProbOf(b, l2) * a.den)
          = ProbOf(fused, l2) * (ProbOf(a, l1) * b.den + ProbOf(b, l1) * a.den)
    /\ \A l \in LabelsOf(fused) : ProbOf(fused, l) <= ProbOf(fused, fused.label)

\* the fusion step of the current call has run, returning or raising
FusionStepRan == Len(trace) >= 2 /\ trace[2] = "fusion"

\* C26: in ensemble mode the fused distribution of each target is the
\* label-by-label average of the attention-mode and the bayesian-mode fused
\* distributions, renormalised to sum 1, and the fused label is its argmax,
\* for every combination of present sources, a single source included.
C26_EnsembleAverages ==
    (fusion_method = "ensemble" /\ FusionStepRan) =>
        /\ Fused
        /\ LET attention_results == AttentionFusion(eeg_results, text_results, None)
               bayesian_results == BayesianFusion(engine, eeg_results, text_results)
           IN /\ AverageOf(fusion_results.emotion, attention_results.emotion,
                           bayesian_results.emotion)
              /\ AverageOf(fusion_results.anxiety, attention_results.anxiety,
                           bayesian_results.anxiety)

\* the sentence that names a fusion mode
ModeSentence(method) ==
    CASE method = "attention" -> "used_attention_fusion"
      [] method = "bayesian" -> "used_bayesian_fusion"
      [] OTHER -> "used_ensemble_fusion"

\* list has an element of each set of wanted, at increasing positions
RECURSIVE ContainsInOrder(_, _)
ContainsInOrder(list, wanted) ==
    IF wanted = <<>> THEN TRUE
    ELSE IF list = <<>> THEN FALSE
    ELSE IF Head(list) \in Head(wanted) THEN ContainsInOrder(Tail(list), Tail(wanted))
    ELSE ContainsInOrder(Tail(list), wanted)

\* C27: the explanation list of every result that is not a safety override
\* contains, in this order, a sentence on which source was weighted more
\* heavily, the fused label with confidence of each target, a statement of
\* whether EEG and text agreed, the risk-level sentence, and a sentence naming
\* the fusion mode that was used.
C27_ExplanationOrder ==
    (Returned /\ ~Overridden) =>
        ContainsInOrder(result.explanation,
            << {"weighted_more_heavily"},
               {"emotional_state_with_confidence"},
               {"anxiety_level_with_confidence"},
               AgreementSentences,
               {"overall_risk_assessment"},
               {ModeSentence(fusion_method)} >>)

\* what the explanation of a non-override result is: labels, risk, mode
ExplanationAsBuilt ==
    (Returned /\ ~Overridden) =>
        result.explanation = << "emotional_state_with_confidence",
                                "anxiety_level_with_confidence",
                                "overall_risk_assessment",
                                ModeSentence(fusion_method) >>

\* C28: whenever text_results.depression.label is 'severe', at any
\* confidence and so also when the override rule does not fire, a call that
\* returns never returns risk_level 'stable', whatever the EEG input, the
\* fused emotion and anxiety labels and the fusion method.
C28_SevereNeverStable ==
    (Returned /\ Severe) => result.risk_level # "stable"

\* severe depression at confidence 0.7 with a happy emotion and low anxiety
\* went through the fusion and came out 'mild'
C28_Witness_SevereBelowOverride ==
    /\ Returned /\ ~Overridden /\ SevereUpTo07
    /\ text_results.depression.confidence = 7
    /\ result.emotion_fusion.label = "happy"
    /\ result.anxiety_fusion.label = "low"
    /\ result.risk_score = 8
    /\ result.risk_level = "mild"

-----------------------------------------------------------------------------
(* Properties of the signal functions *)

EpochsReturned == epochs # None /\ ~IsRaise(epochs)

\* C15: for every data length, epoch_length and overlap in [0, 1) the call
\* of extract_eeg_epochs returns; the returned epochs have one common length,
\* consecutive epochs start at least 1 sample apart and in increasing order,
\* and every epoch lies within the input.
C15_EpochsWellFormed ==
    epochs # None =>
        /\ ~IsRaise(epochs)
        /\ \A i, j \in 1..Len(epochs.list) :
              SliceLen(epochs.list[i]) = SliceLen(epochs.list[j])
        /\ \A i \in 1..(Len(epochs.list) - 1) :
              epochs.list[i + 1].start - epochs.list[i].start >= 1
        /\ \A i \in 1..Len(epochs.list) :
              /\ 0 <= epochs.list[i].start
              /\ epochs.list[i].start <= epochs.list[i].stop
              /\ epochs.list[i].stop <= recording.samples

\* the requested epoch is longer than the data
EpochLongerThanData ==
    /\ epochs # None
    /\ EpochSamples(epoch_length, recording.sampling_rate) > recording.samples

\* C16: when the epoch length in samples exceeds the length of the data,
\* extract_eeg_epochs returns exactly one epoch, the whole input from its
\* first to its last sample; it neither fails nor returns an empty list.
C16_ShortDataSingleEpoch ==
    EpochLongerThanData =>
        /\ ~IsRaise(epochs)
        /\ Len(epochs.list) = 1
        /\ epochs.list[1].start = 0
        /\ epochs.list[1].stop = recording.samples
        /\ SliceLen(epochs.list[1]) = recording.samples

\* a non-empty recording shorter than the requested epoch has been epoched
C16_Witness_OneSecondOfData ==
    /\ EpochLongerThanData /\ EpochsReturned
    /\ recording.samples > 0
    /\ epoch_length = 20 /\ overlap = 50
    /\ Len(epochs.list) = 1

\* the recording passed validate_eeg_data, and the functions are given the
\* sampling rate the validation worked with
PassedValidation ==
    /\ validation_result # None
    /\ validation_result.valid
    /\ validation_result.detected_sr = recording.sampling_rate

\* C17: every recording that passes validation (at least 2 seconds) yields at
\* least one epoch in both epoching paths: the list extract_eeg_epochs
\* returns is not empty, and extract_band_powers with its default epoch
\* length returns at least one entry in bands_per_epoch.
C17_NeverZeroEpochs ==
    PassedValidation =>
        /\ (EpochsReturned => Len(epochs.list) >= 1)
        /\ (bands_data # None =>
               ~IsRaise(bands_data) /\ Len(bands_data.bands_per_epoch) >= 1)

\* C18: every band power of compute_spectral_features is >= 0, and the five
\* band powers together are at most the total power of the PSD they were
\* taken from (no bin is counted in two bands).
C18_BandPowersWithinTotal ==
    features # None =>
        /\ \A i \in 1..Len(features.band_powers) : features.band_powers[i].v >= 0
        /\ SeqSum(Values(features.band_powers)) <= SeqSum(psd.psd)

\* the input preprocess_eeg_signal must refuse: shorter than 2 seconds, or a
\* band edge (0.5, 45 Hz) or notch frequency (50, 60 Hz) at or above Nyquist
MustBeRefused ==
    \/ recording.samples < 2 * recording.sampling_rate
    \/ \E freq10 \in {5, 450, 500, 600} : AtOrAboveNyquist(freq10, recording.sampling_rate)

\* C19: preprocess_eeg_signal fails with an error whenever the input has
\* fewer than 2 x sampling_rate samples or a band edge or notch frequency is at
\* or above the Nyquist frequency; it never returns a signal for such input.
C19_PreprocessRefuses ==
    (filtered_data # None /\ MustBeRefused) => IsRaise(filtered_data)

-----------------------------------------------------------------------------
(* Properties of the sessions *)

\* C29: get_eeg_result reports status 'completed' only for a session whose
\* stored status is 'completed': in every interleaving of a poll with the
\* background task, a session that is 'pending' or 'processing' is never
\* reported as completed.
C29_CompletedOnlyWhenStored ==
    (/\ response # None
     /\ response.endpoint = "get_eeg_result"
     /\ response.status = "completed")
        => response.stored = "completed"

TaskEnded == task # None /\ task.pc = "ended"

\* the status changes a session may make
StatusOrder ==
    { <<"pending", "processing">>, <<"processing", "completed">>,
      <<"processing", "failed">> }

\* the stages a task runs for the session, in the order it runs them
StagesDue ==
    IF task.name = "process_eeg_file" THEN << "eeg" >>
    ELSE (IF session.file_key THEN << "eeg" >> ELSE <<>>)
         \o (IF session.text_inputs THEN << "text" >> ELSE <<>>)
         \o << "fusion" >>

====
